---- MODULE Spec2Model ----
(***************************************************************************)
(* Model of the stock assistant: the LangGraph agent state machine of      *)
(* backend/agent.py, the CompanyData cache and the tools of                *)
(* backend/tools.py, the yfinance fetch wrapper and the symbol search of   *)
(* backend/stock_fetcher.py and the audit Logger of backend/database.py.   *)
(***************************************************************************)
EXTENDS Integers, Sequences, FiniteSets, TLC

(***************************************************************************)
(* Bounds of the model and constants of the program.                       *)
(***************************************************************************)
\* backend/agent.py:77  "if total_calls >= 50"
CallBudget == 50
\* number of run_financial_agent calls explored
MaxRuns == 2
\* sizes of the tool-call batches the model stub may answer with
TinyTurn == 1
SmallTurn == 10
BigTurn == 48

VARIABLES
    pc,         \* node of the graph the current run is at; "RAISED" when an
                \* exception has left app.invoke and run_financial_agent
    store,      \* the checkpointer: thread id -> messages of the thread
    thread,     \* thread id of the current run
    run,        \* number of runs started so far
    executed,   \* tool invocations executed by the tools node in this run
    allTools,   \* every agent step of this run so far requested a tool
    execNames,  \* tool name -> invocations of it executed in this run
    runArg,     \* run -> the thread_id argument it was started with
    result,     \* what run_financial_agent computed for the current run
    steps       \* steps of the graph made by app.invoke in the current run

agentVars == <<pc, store, thread, run, executed, allTools, execNames, runArg, result,
               steps>>

VARIABLES
    cache,      \* _company_cache: the dict as its items in insertion order
    handles,    \* the CompanyData objects constructed so far: object i has ticker handles[i]
    firstIns,   \* the keys of _company_cache in the order of their first insertion
    returned,   \* identifier -> the objects get_company_client has returned for it
    cpc,        \* caller -> its position in get_company_client
    carg,       \* caller -> the identifier it passed
    ckey,       \* caller -> its local variable ticker after line 16
    cobj        \* caller -> the object it constructed and has not stored yet

cacheVars == <<cache, handles, firstIns, returned, cpc, carg, ckey, cobj>>

VARIABLES
    fpc,        \* position in safe_get: "idle", "loop" or "done"
    fcaller,    \* who called safe_get
    fattr,      \* attr_name
    fmax,       \* max_retries
    fattempts,  \* reads of the attribute made by this call
    flast,      \* what the last read of the attribute gave
    fret,       \* what safe_get returned
    gpc,        \* position in get_ticker_data
    gret,       \* what get_ticker_data returned
    historyCalls, \* calls of company.history made by get_ticker_data
    gperiod,    \* the period get_ticker_data was called with
    hperiod     \* the period company.history was called with

fetchVars == <<fpc, fcaller, fattr, fmax, fattempts, flast, fret, gpc, gret, historyCalls,
               gperiod, hperiod>>

VARIABLES
    ppc,        \* "idle", or "done" after a call of correct_period_parameter
    pin,        \* invalid_period, the argument of the call
    pans,       \* the content of the answer of the model, if it was asked
    pllm,       \* invocations of the model made by the call
    pout        \* what the call returned

periodVars == <<ppc, pin, pans, pllm, pout>>

VARIABLES
    spc,        \* "idle", or "done" after a call of the search_stock_symbol tool
    sresp,      \* what the search endpoint gave to the call
    sout,       \* the dict CompanyData.search_stock_symbol returned
    stool       \* what the search_stock_symbol tool returned

searchVars == <<spc, sresp, sout, stool>>

VARIABLES
    aenable,    \* enable_logging of the call of run_financial_agent that returned last
    aret,       \* what that call returned
    lconn,      \* logger.conn of its Logger: "None", "open" or "closed"
    opened,     \* connections duckdb.connect opened in the call
    closes,     \* connections closed in the call
    lcalls,     \* uses of the Logger (constructor and methods) in the call
    warned,     \* warnings printed by the except of line 182 in the call
    arow,       \* the row the call inserted into agent_logs
    sinkRows    \* rows inserted into agent_logs so far

auditVars == <<aenable, aret, lconn, opened, closes, lcalls, warned, arow, sinkRows>>

vars == <<agentVars, cacheVars, fetchVars, periodVars, searchVars, auditVars>>

(***************************************************************************)
(* Messages.  role is the message class; calls is AIMessage.tool_calls     *)
(* (empty for the other classes, which have no such attribute); tcid is    *)
(* ToolMessage.tool_call_id (0 for the other classes); run is the run      *)
(* that created the message; text says what the content is; id is          *)
(* BaseMessage.id, 0 for None.                                             *)
(***************************************************************************)
Threads == {"default", "other"}

ToolNames == {"validate_stock_symbol", "get_company_info", "get_stock_history",
              "get_financial_statements", "correct_period_parameter",
              "search_stock_symbol"}

\* a message as its constructor makes it: without an id
Msg(role, r, calls, tcid, text) ==
    [role |-> role, run |-> r, calls |-> calls, tcid |-> tcid, text |-> text, id |-> 0]

\* the add_messages reducer of the messages channel (line 41): a message of
\* the update that has no id gets a new one; a message that has the id of a
\* message of the channel takes the place of that message, every other
\* message of the update is appended in the order of the update
add_messages(left, right) ==
    LET ids == {left[i].id : i \in DOMAIN left}
        used == ids \cup {right[i].id : i \in DOMAIN right} \cup {0}
        merged(known, named) ==
            LET update(m) ==
                    IF \E j \in DOMAIN named : named[j].id = m.id
                    THEN named[CHOOSE j \in DOMAIN named :
                                  /\ named[j].id = m.id
                                  /\ \A k \in DOMAIN named : named[k].id = m.id => k <= j]
                    ELSE m
                new(m) == m.id \notin known
            IN [i \in DOMAIN left |-> update(left[i])] \o SelectSeq(named, new)
    IN CHOOSE out \in
          UNION { { merged(known, named) :
                      named \in { [i \in DOMAIN right |->
                                     IF right[i].id = 0
                                     THEN [right[i] EXCEPT !.id = last + i]
                                     ELSE right[i]] } } :
                  <<known, last>> \in
                      { <<ids, CHOOSE n \in used : \A k \in used : k <= n>> } } : TRUE

\* config = {"configurable": {"thread_id": thread_id}}: the key of the checkpointer
config(thread_id) == thread_id

\* a plausible slip: the planner is wired to the tools node
add_edge_wrong(node) == IF node = "PLAN" THEN "TOOLS" ELSE "ACT"

\* add_edge("planner", "agent") and add_edge("tools", "agent")
add_edge(node) == "ACT"

\* hasattr(m, "tool_calls") and m.tool_calls
HasToolCalls(m) == m.role = "ai" /\ m.calls # <<>>

\* the tool calls of the messages: <<i, j>> is the j-th call of message i
CallsIn(msgs) ==
    UNION {{<<i, j>> : j \in DOMAIN msgs[i].calls} :
             i \in {k \in DOMAIN msgs : HasToolCalls(msgs[k])}}

\* sum(len(m.tool_calls) for m in messages if hasattr(m, "tool_calls") and m.tool_calls):
\* the sum of the lengths is the number of the calls
TotalCalls(msgs) == Cardinality(CallsIn(msgs))

\* a plausible slip: the budget is compared with the calls of the earlier turns only
should_continue_earlier(msgs) ==
    IF HasToolCalls(msgs[Len(msgs)])
    THEN IF TotalCalls(SubSeq(msgs, 1, Len(msgs) - 1)) >= CallBudget THEN "end" ELSE "tools"
    ELSE "end"

\* a plausible slip: the comparison with the budget is off by one
should_continue_gt(msgs) ==
    IF HasToolCalls(msgs[Len(msgs)])
    THEN IF TotalCalls(msgs) > CallBudget THEN "end" ELSE "tools"
    ELSE "end"

should_continue(msgs) ==
    IF HasToolCalls(msgs[Len(msgs)])
    THEN IF TotalCalls(msgs) >= CallBudget THEN "end" ELSE "tools"
    ELSE "end"

messages == store[thread]

(***************************************************************************)
(* The CompanyData cache of backend/tools.py.  Identifiers are strings,    *)
(* modelled as sequences of characters.                                    *)
(***************************************************************************)
Idents == { <<"a","a","p","l">>, <<"A","A","P","L">>, <<"f">>, <<"F">>,
            <<"\\u0131","b","m">>, <<"G","o","o","g","l">> }

\* the identifiers the concurrent callers pass
ConcIdents == { <<"a","a","p","l">>, <<"A","A","P","L">>, <<"F">> }

\* str.upper and str.lower are given by the tables of Python for the characters
\* below U+0180 and for U+1E9E, U+212A, U+212B and U+FB01; they have no value
\* for another character.  A character that has no escape in a TLA+ string is
\* named by its Python escape, written with the backslash doubled: "\\xe9" is
\* the character \xe9, and "\\x60" is the grave accent.
\* the characters str.upper leaves as they are
upper_same ==
    { "\\x00", "\\x01", "\\x02", "\\x03", "\\x04", "\\x05", "\\x06", "\\x07", "\\x08",
      "\t", "\n", "\\x0b", "\f", "\r", "\\x0e", "\\x0f", "\\x10", "\\x11", "\\x12",
      "\\x13", "\\x14", "\\x15", "\\x16", "\\x17", "\\x18", "\\x19", "\\x1a", "\\x1b",
      "\\x1c", "\\x1d", "\\x1e", "\\x1f", " ", "!", "\"", "#", "$", "%", "&", "'", "(",
      ")", "*", "+", ",", "-", ".", "/", "0", "1", "2", "3", "4", "5", "6", "7", "8", "9",
      ":", ";", "<", "=", ">", "?", "@", "A", "B", "C", "D", "E", "F", "G", "H", "I", "J",
      "K", "L", "M", "N", "O", "P", "Q", "R", "S", "T", "U", "V", "W", "X", "Y", "Z", "[",
      "\\", "]", "^", "_", "\\x60", "{", "|", "}", "~", "\\x7f", "\\x80", "\\x81", "\\x82",
      "\\x83", "\\x84", "\\x85", "\\x86", "\\x87", "\\x88", "\\x89", "\\x8a", "\\x8b",
      "\\x8c", "\\x8d", "\\x8e", "\\x8f", "\\x90", "\\x91", "\\x92", "\\x93", "\\x94",
      "\\x95", "\\x96", "\\x97", "\\x98", "\\x99", "\\x9a", "\\x9b", "\\x9c", "\\x9d",
      "\\x9e", "\\x9f", "\\xa0", "\\xa1", "\\xa2", "\\xa3", "\\xa4", "\\xa5", "\\xa6",
      "\\xa7", "\\xa8", "\\xa9", "\\xaa", "\\xab", "\\xac", "\\xad", "\\xae", "\\xaf",
      "\\xb0", "\\xb1", "\\xb2", "\\xb3", "\\xb4", "\\xb6", "\\xb7", "\\xb8", "\\xb9",
      "\\xba", "\\xbb", "\\xbc", "\\xbd", "\\xbe", "\\xbf", "\\xc0", "\\xc1", "\\xc2",
      "\\xc3", "\\xc4", "\\xc5", "\\xc6", "\\xc7", "\\xc8", "\\xc9", "\\xca", "\\xcb",
      "\\xcc", "\\xcd", "\\xce", "\\xcf", "\\xd0", "\\xd1", "\\xd2", "\\xd3", "\\xd4",
      "\\xd5", "\\xd6", "\\xd7", "\\xd8", "\\xd9", "\\xda", "\\xdb", "\\xdc", "\\xdd",
      "\\xde", "\\xf7", "\\u0100", "\\u0102", "\\u0104", "\\u0106", "\\u0108", "\\u010a",
      "\\u010c", "\\u010e", "\\u0110", "\\u0112", "\\u0114", "\\u0116", "\\u0118",
      "\\u011a", "\\u011c", "\\u011e", "\\u0120", "\\u0122", "\\u0124", "\\u0126",
      "\\u0128", "\\u012a", "\\u012c", "\\u012e", "\\u0130", "\\u0132", "\\u0134",
      "\\u0136", "\\u0138", "\\u0139", "\\u013b", "\\u013d", "\\u013f", "\\u0141",
      "\\u0143", "\\u0145", "\\u0147", "\\u014a", "\\u014c", "\\u014e", "\\u0150",
      "\\u0152", "\\u0154", "\\u0156", "\\u0158", "\\u015a", "\\u015c", "\\u015e",
      "\\u0160", "\\u0162", "\\u0164", "\\u0166", "\\u0168", "\\u016a", "\\u016c",
      "\\u016e", "\\u0170", "\\u0172", "\\u0174", "\\u0176", "\\u0178", "\\u0179",
      "\\u017b", "\\u017d", "\\u1e9e", "\\u212a", "\\u212b" }

\* the characters str.upper changes, each with what it becomes
upper_other ==
    { <<"a", <<"A">>>>, <<"b", <<"B">>>>, <<"c", <<"C">>>>, <<"d", <<"D">>>>,
      <<"e", <<"E">>>>, <<"f", <<"F">>>>, <<"g", <<"G">>>>, <<"h", <<"H">>>>,
      <<"i", <<"I">>>>, <<"j", <<"J">>>>, <<"k", <<"K">>>>, <<"l", <<"L">>>>,
      <<"m", <<"M">>>>, <<"n", <<"N">>>>, <<"o", <<"O">>>>, <<"p", <<"P">>>>,
      <<"q", <<"Q">>>>, <<"r", <<"R">>>>, <<"s", <<"S">>>>, <<"t", <<"T">>>>,
      <<"u", <<"U">>>>, <<"v", <<"V">>>>, <<"w", <<"W">>>>, <<"x", <<"X">>>>,
      <<"y", <<"Y">>>>, <<"z", <<"Z">>>>, <<"\\xb5", <<"\\u039c">>>>,
      <<"\\xdf", <<"S", "S">>>>, <<"\\xe0", <<"\\xc0">>>>, <<"\\xe1", <<"\\xc1">>>>,
      <<"\\xe2", <<"\\xc2">>>>, <<"\\xe3", <<"\\xc3">>>>, <<"\\xe4", <<"\\xc4">>>>,
      <<"\\xe5", <<"\\xc5">>>>, <<"\\xe6", <<"\\xc6">>>>, <<"\\xe7", <<"\\xc7">>>>,
      <<"\\xe8", <<"\\xc8">>>>, <<"\\xe9", <<"\\xc9">>>>, <<"\\xea", <<"\\xca">>>>,
      <<"\\xeb", <<"\\xcb">>>>, <<"\\xec", <<"\\xcc">>>>, <<"\\xed", <<"\\xcd">>>>,
      <<"\\xee", <<"\\xce">>>>, <<"\\xef", <<"\\xcf">>>>, <<"\\xf0", <<"\\xd0">>>>,
      <<"\\xf1", <<"\\xd1">>>>, <<"\\xf2", <<"\\xd2">>>>, <<"\\xf3", <<"\\xd3">>>>,
      <<"\\xf4", <<"\\xd4">>>>, <<"\\xf5", <<"\\xd5">>>>, <<"\\xf6", <<"\\xd6">>>>,
      <<"\\xf8", <<"\\xd8">>>>, <<"\\xf9", <<"\\xd9">>>>, <<"\\xfa", <<"\\xda">>>>,
      <<"\\xfb", <<"\\xdb">>>>, <<"\\xfc", <<"\\xdc">>>>, <<"\\xfd", <<"\\xdd">>>>,
      <<"\\xfe", <<"\\xde">>>>, <<"\\xff", <<"\\u0178">>>>, <<"\\u0101", <<"\\u0100">>>>,
      <<"\\u0103", <<"\\u0102">>>>, <<"\\u0105", <<"\\u0104">>>>,
      <<"\\u0107", <<"\\u0106">>>>, <<"\\u0109", <<"\\u0108">>>>,
      <<"\\u010b", <<"\\u010a">>>>, <<"\\u010d", <<"\\u010c">>>>,
      <<"\\u010f", <<"\\u010e">>>>, <<"\\u0111", <<"\\u0110">>>>,
      <<"\\u0113", <<"\\u0112">>>>, <<"\\u0115", <<"\\u0114">>>>,
      <<"\\u0117", <<"\\u0116">>>>, <<"\\u0119", <<"\\u0118">>>>,
      <<"\\u011b", <<"\\u011a">>>>, <<"\\u011d", <<"\\u011c">>>>,
      <<"\\u011f", <<"\\u011e">>>>, <<"\\u0121", <<"\\u0120">>>>,
      <<"\\u0123", <<"\\u0122">>>>, <<"\\u0125", <<"\\u0124">>>>,
      <<"\\u0127", <<"\\u0126">>>>, <<"\\u0129", <<"\\u0128">>>>,
      <<"\\u012b", <<"\\u012a">>>>, <<"\\u012d", <<"\\u012c">>>>,
      <<"\\u012f", <<"\\u012e">>>>, <<"\\u0131", <<"I">>>>, <<"\\u0133", <<"\\u0132">>>>,
      <<"\\u0135", <<"\\u0134">>>>, <<"\\u0137", <<"\\u0136">>>>,
      <<"\\u013a", <<"\\u0139">>>>, <<"\\u013c", <<"\\u013b">>>>,
      <<"\\u013e", <<"\\u013d">>>>, <<"\\u0140", <<"\\u013f">>>>,
      <<"\\u0142", <<"\\u0141">>>>, <<"\\u0144", <<"\\u0143">>>>,
      <<"\\u0146", <<"\\u0145">>>>, <<"\\u0148", <<"\\u0147">>>>,
      <<"\\u0149", <<"\\u02bc", "N">>>>, <<"\\u014b", <<"\\u014a">>>>,
      <<"\\u014d", <<"\\u014c">>>>, <<"\\u014f", <<"\\u014e">>>>,
      <<"\\u0151", <<"\\u0150">>>>, <<"\\u0153", <<"\\u0152">>>>,
      <<"\\u0155", <<"\\u0154">>>>, <<"\\u0157", <<"\\u0156">>>>,
      <<"\\u0159", <<"\\u0158">>>>, <<"\\u015b", <<"\\u015a">>>>,
      <<"\\u015d", <<"\\u015c">>>>, <<"\\u015f", <<"\\u015e">>>>,
      <<"\\u0161", <<"\\u0160">>>>, <<"\\u0163", <<"\\u0162">>>>,
      <<"\\u0165", <<"\\u0164">>>>, <<"\\u0167", <<"\\u0166">>>>,
      <<"\\u0169", <<"\\u0168">>>>, <<"\\u016b", <<"\\u016a">>>>,
      <<"\\u016d", <<"\\u016c">>>>, <<"\\u016f", <<"\\u016e">>>>,
      <<"\\u0171", <<"\\u0170">>>>, <<"\\u0173", <<"\\u0172">>>>,
      <<"\\u0175", <<"\\u0174">>>>, <<"\\u0177", <<"\\u0176">>>>,
      <<"\\u017a", <<"\\u0179">>>>, <<"\\u017c", <<"\\u017b">>>>,
      <<"\\u017e", <<"\\u017d">>>>, <<"\\u017f", <<"S">>>>, <<"\\ufb01", <<"F", "I">>>> }

RECURSIVE join(_)
\* the strings of a sequence put one after the other
join(parts) == IF parts = <<>> THEN <<>> ELSE Head(parts) \o join(Tail(parts))

\* str.upper on one character: one character or more ("\\xdf" becomes "SS")
upper_char(c) ==
    IF c \in upper_same THEN <<c>> ELSE (CHOOSE p \in upper_other : p[1] = c)[2]

\* a plausible slip: the identifier is used as the key as it comes
upper_missing(s) == s

\* ticker.upper(): the characters of the string are converted one by one
upper(s) == join([i \in DOMAIN s |-> upper_char(s[i])])

\* ticker in _company_cache
InCache(c, k) == \E i \in DOMAIN c : c[i].key = k

\* _company_cache[ticker]
CacheGet(c, k) == c[CHOOSE i \in DOMAIN c : c[i].key = k].obj

\* a plausible slip: a cache of bounded size that drops its oldest entry
CachePutEvict(c, k, h) ==
    LET put == IF InCache(c, k)
               THEN [i \in DOMAIN c |-> IF c[i].key = k THEN [key |-> k, obj |-> h] ELSE c[i]]
               ELSE Append(c, [key |-> k, obj |-> h])
    IN IF Len(put) > 2 THEN Tail(put) ELSE put

\* _company_cache[ticker] = obj: a new key goes to the end of the dict, a key
\* already there keeps its place and gets the new value
CachePut(c, k, h) ==
    IF InCache(c, k)
    THEN [i \in DOMAIN c |-> IF c[i].key = k THEN [key |-> k, obj |-> h] ELSE c[i]]
    ELSE Append(c, [key |-> k, obj |-> h])

\* list(_company_cache.keys())
get_cached_companies == [i \in DOMAIN cache |-> cache[i].key]

\* number of callers explored by the concurrent specification
NumCallers == 2
Callers == 1..NumCallers

\* a caller enters get_company_client(id); line 16: ticker = ticker.upper()
Call(t, id) ==
    /\ cpc[t] = "idle"
    /\ carg' = [carg EXCEPT ![t] = id]
    /\ ckey' = [ckey EXCEPT ![t] = upper(id)]
    /\ cpc' = [cpc EXCEPT ![t] = "check"]
    /\ UNCHANGED <<cache, handles, firstIns, returned, cobj>>

\* line 17: if ticker not in _company_cache
Check(t) ==
    /\ cpc[t] = "check"
    /\ cpc' = [cpc EXCEPT ![t] = IF InCache(cache, ckey[t]) THEN "return" ELSE "construct"]
    /\ UNCHANGED <<cache, handles, firstIns, returned, carg, ckey, cobj>>

\* line 18, right hand side: CompanyData(ticker)
Construct(t) ==
    /\ cpc[t] = "construct"
    /\ handles' = Append(handles, ckey[t])
    /\ cobj' = [cobj EXCEPT ![t] = Len(handles) + 1]
    /\ cpc' = [cpc EXCEPT ![t] = "store"]
    /\ UNCHANGED <<cache, firstIns, returned, carg, ckey>>

\* line 18, the assignment: _company_cache[ticker] = ...
Store(t) ==
    /\ cpc[t] = "store"
    /\ cache' = CachePut(cache, ckey[t], cobj[t])
    /\ firstIns' = IF \E i \in DOMAIN firstIns : firstIns[i] = ckey[t]
                   THEN firstIns ELSE Append(firstIns, ckey[t])
    /\ cobj' = [cobj EXCEPT ![t] = 0]
    /\ cpc' = [cpc EXCEPT ![t] = "return"]
    /\ UNCHANGED <<handles, returned, carg, ckey>>

\* line 19: return _company_cache[ticker]
Return(t) ==
    /\ cpc[t] = "return"
    /\ returned' = [returned EXCEPT ![carg[t]] = @ \cup {CacheGet(cache, ckey[t])}]
    /\ cpc' = [cpc EXCEPT ![t] = "idle"]
    /\ UNCHANGED <<cache, handles, firstIns, carg, ckey, cobj>>

get_company_client(t, ids) ==
    \/ \E id \in ids : Call(t, id)
    \/ Check(t)
    \/ Construct(t)
    \/ Store(t)
    \/ Return(t)

CacheInit ==
    /\ cache = <<>>
    /\ handles = <<>>
    /\ firstIns = <<>>
    /\ returned = [id \in Idents |-> {}]
    /\ cpc = [t \in Callers |-> "idle"]
    /\ carg = [t \in Callers |-> <<>>]
    /\ ckey = [t \in Callers |-> <<>>]
    /\ cobj = [t \in Callers |-> 0]

(***************************************************************************)
(* The audit sink: the Logger of backend/database.py, used by lines        *)
(* 176-183 of run_financial_agent.  A text is given by its length and by   *)
(* whether it ends with the ellipsis of a truncation.                      *)
(***************************************************************************)
\* backend/database.py:17  self.max_length = 1000
max_length == 1000

Text(n) == [len |-> n, ellipsis |-> FALSE]

NoRow == [query |-> Text(0), response |-> Text(0), tool_calls |-> -1]

\* Logger._truncate_text: text[:max_length - 3] + "..." when it is too long
truncate_text(text) ==
    IF text.len <= max_length THEN text
    ELSE [len |-> (max_length - 3) + 3, ellipsis |-> TRUE]

\* what a call to the database does
CallOutcomes == {"ok", "Exception"}

\* a plausible slip: connect opens a connection whatever self.conn is
connect_effect_always(conn, o1, o2) ==
    IF o1 # "ok" THEN [conn |-> conn, opened |-> 0, raised |-> TRUE]
    ELSE [conn |-> "open", opened |-> 1, raised |-> o2 # "ok"]

\* the body of Logger.connect on a logger whose conn is conn: o1 is what
\* duckdb.connect does and o2 what the CREATE TABLE of _ensure_table_exists does
connect_effect(conn, o1, o2) ==
    IF conn = "None"
    THEN IF o1 # "ok" THEN [conn |-> "None", opened |-> 0, raised |-> TRUE]
         ELSE [conn |-> "open", opened |-> 1, raised |-> o2 # "ok"]
    ELSE [conn |-> conn, opened |-> 0, raised |-> FALSE]

\* a Logger before its constructor ran, with the counts of the call
NoLogger == [conn |-> "None", opened |-> 0, closes |-> 0, calls |-> 0, row |-> NoRow,
             raised |-> FALSE]

\* Logger.__init__: raises RuntimeError when there is no token
Logger_init(l, token) == [l EXCEPT !.calls = @ + 1, !.conn = "None", !.raised = ~token]

\* Logger.connect
connect(l, o1, o2) ==
    LET c == connect_effect(l.conn, o1, o2)
    IN [l EXCEPT !.calls = @ + 1, !.conn = c.conn, !.opened = @ + c.opened,
                 !.raised = c.raised]

\* Logger.log_agent_run: connects when there is no connection, then inserts
\* the row with the truncated texts; o3 is what the INSERT does
log_agent_run(l, query, response, tool_calls, o1, o2, o3) ==
    LET c == IF l.conn = "None" THEN connect_effect(l.conn, o1, o2)
             ELSE [conn |-> l.conn, opened |-> 0, raised |-> FALSE]
        inserted == ~c.raised /\ c.conn = "open" /\ o3 = "ok"
    IN [l EXCEPT !.calls = @ + 1, !.conn = c.conn, !.opened = @ + c.opened,
                 !.row = IF inserted
                         THEN [query |-> truncate_text(query),
                               response |-> truncate_text(response),
                               tool_calls |-> tool_calls]
                         ELSE @,
                 !.raised = ~inserted]

\* Logger.close: closes self.conn when there is one and leaves self.conn set
close(l, o4) ==
    IF l.conn = "open"
    THEN IF o4 = "ok" THEN [l EXCEPT !.calls = @ + 1, !.conn = "closed", !.closes = @ + 1]
         ELSE [l EXCEPT !.calls = @ + 1, !.raised = TRUE]
    ELSE [l EXCEPT !.calls = @ + 1]

\* lines 178-181: the statements of the try, left at the first that raises
try_logging(query, response, tool_calls, token, o1, o2, o3, o4) ==
    LET l1 == Logger_init(NoLogger, token)
        l2 == IF l1.raised THEN l1 ELSE connect(l1, o1, o2)
        l3 == IF l2.raised THEN l2
              ELSE log_agent_run(l2, query, response, tool_calls, o1, o2, o3)
    IN IF l3.raised THEN l3 ELSE close(l3, o4)

\* a plausible slip: the failure of the audit sink leaves run_financial_agent
except_propagate == "raised"

\* except Exception of line 182: the warning is printed and the return follows
except_Exception == "return"

AuditInit ==
    /\ aenable = FALSE
    /\ aret = [kind |-> "none"]
    /\ lconn = "None"
    /\ opened = 0
    /\ closes = 0
    /\ lcalls = 0
    /\ warned = 0
    /\ arow = NoRow
    /\ sinkRows = 0

(***************************************************************************)
(* Strings are sequences of characters.                                    *)
(***************************************************************************)
S1d == <<"1", "d">>
S5d == <<"5", "d">>
S1mo == <<"1", "m", "o">>
S3mo == <<"3", "m", "o">>
S6mo == <<"6", "m", "o">>
S1y == <<"1", "y">>
S2y == <<"2", "y">>
S5y == <<"5", "y">>
S10y == <<"1", "0", "y">>
Sytd == <<"y", "t", "d">>
Smax == <<"m", "a", "x">>
S1w == <<"1", "w">>
S1week == <<"1", "w", "e", "e", "k">>
S2w == <<"2", "w">>
S3w == <<"3", "w">>
S4w == <<"4", "w">>
Sweek == <<"w", "e", "e", "k">>
Smonth == <<"m", "o", "n", "t", "h">>
Syear == <<"y", "e", "a", "r">>
S3m == <<"3", "m">>
S6m == <<"6", "m">>
Sbogus == <<"b", "o", "g", "u", "s">>

(***************************************************************************)
(* CompanyData of backend/stock_fetcher.py.  A value of the provider is    *)
(* its type and its size; a message of an exception is a sequence of the   *)
(* phrases it is made of.                                                  *)
(***************************************************************************)
\* stock_fetcher.py:17  max_retries=3
DefaultMaxRetries == 3
\* the largest max_retries a direct caller of safe_get passes
MaxRetriesArg == 4

Val(type, size) == [kind |-> "value", type |-> type, size |-> size]
Err(msg) == [kind |-> "error", msg |-> msg]

NoneVal == Val("NoneType", 0)
\* no return yet, and a call left by an exception
Pending == [kind |-> "pending"]
Thrown == [kind |-> "raised"]
EmptyFrame == Val("DataFrame", 0)

Values == { NoneVal, Val("dict", 0), Val("dict", 2), Val("list", 0), Val("list", 1),
            EmptyFrame, Val("DataFrame", 3), Val("method", 0) }

Errors == { Err(<<"429", "Client Error">>), Err(<<"Too Many Requests">>),
            Err(<<"too many requests">>), Err(<<"404", "Not Found">>),
            Err(<<"Read timed out">>) }

Outcomes == Values \cup Errors

Attrs == {"info", "financials", "history"}

\* phrase in str(e)
Contains(msg, phrase) == \E i \in DOMAIN msg : msg[i] = phrase

\* a plausible slip: only None counts as an empty response
is_empty_none_only(data) == data.type = "NoneType"

\* line 25: data is None or (isinstance(data, dict) and not data)
is_empty(data) ==
    data.type = "NoneType" \/ (data.type = "dict" /\ data.size = 0)

\* a plausible slip: an error that is no rate limit is raised again
on_error_reraise(msg) ==
    IF Contains(msg, "429") \/ Contains(msg, "Too Many Requests")
    THEN "retry" ELSE "raise"

\* a plausible slip: the break is missing
on_error_no_break(msg) == "retry"

\* lines 28-33: the except clause takes the next turn of the loop after a
\* rate limit and leaves the loop after any other error
on_error(msg) ==
    IF Contains(msg, "429") \/ Contains(msg, "Too Many Requests")
    THEN "retry" ELSE "break"

\* lines 23-27: the exception the try block ends with, if any
Raised(o) ==
    IF o.kind = "error" THEN o.msg
    ELSE IF is_empty(o) THEN <<"Empty response from Yahoo">>
    ELSE <<>>

\* safe_get is entered; line 19 makes the Ticker
safe_get_call(caller, attr, mr) ==
    /\ fpc \in {"idle", "done"}
    /\ gpc \in {"idle", "done"}
    /\ fpc' = "loop"
    /\ fcaller' = caller
    /\ fattr' = attr
    /\ fmax' = mr
    /\ fattempts' = 0
    /\ flast' = NoneVal
    /\ fret' = Pending
    /\ gpc' = IF caller = "safe_get" THEN "idle" ELSE "called"
    /\ gret' = Pending
    /\ historyCalls' = 0
    /\ hperiod' = <<>>

\* one turn of the loop of lines 22-33: the provider gives o
safe_get_attempt(o) ==
    /\ fpc = "loop"
    /\ fattempts < fmax
    /\ fattempts' = fattempts + 1
    /\ flast' = o
    /\ IF Raised(o) = <<>>
       THEN fret' = o /\ fpc' = "done"
       ELSE LET todo == on_error(Raised(o))
            IN /\ fret' = CASE todo = "retry" -> Pending
                             [] todo = "break" -> NoneVal
                             [] OTHER -> Thrown
               /\ fpc' = IF todo = "retry" THEN "loop" ELSE "done"
    /\ UNCHANGED <<fcaller, fattr, fmax, gpc, gret, historyCalls, gperiod, hperiod>>

\* line 34: range(max_retries) is used up
safe_get_exhausted ==
    /\ fpc = "loop"
    /\ fattempts >= fmax
    /\ fret' = NoneVal
    /\ fpc' = "done"
    /\ UNCHANGED <<fcaller, fattr, fmax, fattempts, flast, gpc, gret, historyCalls,
                   gperiod, hperiod>>

\* a plausible slip: the history endpoint is asked whatever safe_get gave
history_wanted_always(data) == TRUE

\* line 55: if data is not None
history_wanted(data) == data # NoneVal

\* lines 55-61 of get_ticker_data, after safe_get has returned: the history
\* endpoint gives h
get_ticker_data_finish(h) ==
    /\ gpc = "called"
    /\ fcaller = "get_ticker_data"
    /\ fpc = "done"
    /\ gpc' = "done"
    /\ IF fret = Thrown
       THEN gret' = Thrown /\ UNCHANGED <<historyCalls, hperiod>>
       ELSE IF history_wanted(fret)
       THEN /\ historyCalls' = historyCalls + 1
            /\ hperiod' = gperiod
            /\ gret' = IF h.kind = "error" THEN Thrown ELSE h
       ELSE /\ gret' = EmptyFrame
            /\ UNCHANGED <<historyCalls, hperiod>>
    /\ UNCHANGED <<fpc, fcaller, fattr, fmax, fattempts, flast, fret, gperiod>>

\* line 44: pd.DataFrame.from_dict(info, orient='index', columns=['Value']):
\* from_dict reads len(data) first, which raises for None and for a method; of
\* data that has items it calls data.values(), which a dict has, a list has
\* not and a DataFrame has as an array that cannot be called; data without
\* items goes to DataFrame(data, columns=...) as it is and gives a frame
\* without rows
from_dict(info) ==
    IF info.kind = "value" /\ info.type = "dict" THEN Val("DataFrame", info.size)
    ELSE IF info.kind = "value" /\ info.type \in {"list", "DataFrame"} /\ info.size = 0
    THEN EmptyFrame
    ELSE Thrown

\* lines 41-44 of get_info, after safe_get has returned
get_info_finish ==
    /\ gpc = "called"
    /\ fcaller = "get_info"
    /\ fpc = "done"
    /\ gpc' = "done"
    /\ gret' = from_dict(fret)
    /\ UNCHANGED <<fpc, fcaller, fattr, fmax, fattempts, flast, fret, historyCalls,
                   gperiod, hperiod>>

\* lines 36-39 of get_financials, after safe_get has returned: info is returned as it is
get_financials_finish ==
    /\ gpc = "called"
    /\ fcaller = "get_financials"
    /\ fpc = "done"
    /\ gpc' = "done"
    /\ gret' = fret
    /\ UNCHANGED <<fpc, fcaller, fattr, fmax, fattempts, flast, fret, historyCalls,
                   gperiod, hperiod>>

\* x.to_string(): a string for a DataFrame, an exception for what has no to_string
to_string(x) ==
    IF x.kind = "value" /\ x.type = "DataFrame" THEN Val("str", 1) ELSE Thrown

\* what the tool built on the derived operation returns (tools.py:63-87):
\* get_company_info, get_stock_history and get_financial_statements call
\* to_string on what the operation returned
tool_result == to_string(gret)

\* the Valid Period Set (tools.py:138, stock_fetcher.py:49)
valid_periods == { S1d, S5d, S1mo, S3mo, S6mo, S1y, S2y, S5y, S10y, Sytd, Smax }

\* the periods get_stock_history and get_ticker_data are called with
Periods == { S1mo, S1d, Smax, S1w, S1week, Sbogus }

\* line 56: history(period=period, interval=interval) gets the period as passed
period_arg(period) == period

\* get_ticker_data(period): line 53 calls safe_get(self.ticker_symbol, 'history', max_retries=3)
get_ticker_data_call(p) ==
    /\ safe_get_call("get_ticker_data", "history", DefaultMaxRetries)
    /\ gperiod' = period_arg(p)

\* get_info: line 43 calls safe_get(self.ticker_symbol, 'info', max_retries=3)
get_info_call ==
    /\ safe_get_call("get_info", "info", DefaultMaxRetries)
    /\ UNCHANGED gperiod

\* get_financials: line 38 calls safe_get(self.ticker_symbol, 'financials', max_retries=3)
get_financials_call ==
    /\ safe_get_call("get_financials", "financials", DefaultMaxRetries)
    /\ UNCHANGED gperiod

HistoryOutcomes == { EmptyFrame, Val("DataFrame", 3), Err(<<"Invalid period">>) }

FetchNext ==
    /\ \/ \E attr \in Attrs, mr \in 0..MaxRetriesArg :
            safe_get_call("safe_get", attr, mr) /\ UNCHANGED gperiod
       \/ \E p \in Periods : get_ticker_data_call(p)
       \/ get_info_call
       \/ get_financials_call
       \/ \E o \in Outcomes : safe_get_attempt(o)
       \/ safe_get_exhausted
       \/ \E h \in HistoryOutcomes : get_ticker_data_finish(h)
       \/ get_info_finish
       \/ get_financials_finish
    /\ UNCHANGED <<agentVars, cacheVars, periodVars, searchVars, auditVars>>

FetchInit ==
    /\ fpc = "idle"
    /\ fcaller = "safe_get"
    /\ fattr = "info"
    /\ fmax = DefaultMaxRetries
    /\ fattempts = 0
    /\ flast = NoneVal
    /\ fret = Pending
    /\ gpc = "idle"
    /\ gret = Pending
    /\ historyCalls = 0
    /\ gperiod = S1mo
    /\ hperiod = <<>>

(***************************************************************************)
(* The answers of the model stub in an agent step: no tool call, a small   *)
(* batch or a big batch of tool calls.                                     *)
(***************************************************************************)
\* the tool of the i-th request of a batch of n requests: the last request
\* asks for the company info, the one before it for the price history, every
\* other one for the validation of the symbol
BatchName(i, n) ==
    IF i = n THEN "get_company_info"
    ELSE IF i = n - 1 THEN "get_stock_history"
    ELSE "validate_stock_symbol"

Batches == {0, SmallTurn, BigTurn}

\* the ticker argument of the i-th request of a batch
BatchTicker(i) == <<"a","a","p","l">>

\* the tool_calls of an answer of n requests; ids are unique in the thread
Requests(msgs, n) ==
    LET issued == TotalCalls(msgs)
    IN [i \in 1..n |-> [id |-> issued + i, name |-> BatchName(i, n),
                        ticker |-> BatchTicker(i)]]

\* the texts of a run: the query is longer than max_length, the content of
\* an answer that requests tools is empty, any other content is short
user_query == Text(max_length + 1)
content(m) == IF HasToolCalls(m) THEN Text(0) ELSE Text(5)

(***************************************************************************)
(* run_financial_agent: app.invoke({"messages": [system, human]}, config)  *)
(* The add_messages reducer appends the input to the messages the          *)
(* checkpointer holds for the thread id.                                   *)
(***************************************************************************)
NoResult == [kind |-> "none"]

\* line 148: config has the thread id and no recursion_limit, so app.invoke
\* runs the graph for the default number of steps of the graph library
recursion_limit == 25

\* the loop of app.invoke after a step, the made-th of the call: the node the
\* edges lead to runs next, unless recursion_limit steps are made and a node
\* is still to run; then GraphRecursionError leaves app.invoke
next_step(node, made) ==
    IF node # "END" /\ made >= recursion_limit THEN "RAISED" ELSE node

StartRun(th) ==
    /\ pc \in {"idle", "RAISED"} \/ (pc = "END" /\ result # NoResult)
    /\ run < MaxRuns
    /\ run' = run + 1
    /\ thread' = config(th)
    /\ runArg' = Append(runArg, th)
    /\ store' = [store EXCEPT ![config(th)] =
                    add_messages(@, << Msg("system", run + 1, <<>>, 0, "system_prompt"),
                                       Msg("human", run + 1, <<>>, 0, "user_query") >>)]
    /\ executed' = 0
    /\ execNames' = [n \in ToolNames |-> 0]
    /\ result' = NoResult
    /\ allTools' = TRUE
    /\ steps' = 0
    /\ pc' = "PLAN"
    /\ aenable' = FALSE
    /\ aret' = NoResult
    /\ lconn' = "None"
    /\ opened' = 0
    /\ closes' = 0
    /\ lcalls' = 0
    /\ warned' = 0
    /\ arow' = NoRow
    /\ UNCHANGED <<sinkRows, cacheVars, fetchVars>>

\* line 53: planning_messages, the local list the model is asked for the plan
\* with: the messages of the state and the planning prompt
planning_messages ==
    messages \o << Msg("system", run, <<>>, 0, "planning_prompt") >>

\* a plausible slip: the node returns the list it asked with and the plan
create_plan_return_asked ==
    planning_messages \o << Msg("system", run, <<>>, 0, "plan") >>

\* line 56: return {"messages": [SystemMessage(content=f"Plan:\n{plan.content}")]}
create_plan_return == << Msg("system", run, <<>>, 0, "plan") >>

\* planner node: create_plan asks the model for the plan and returns the plan
\* as the update of the messages
create_plan ==
    /\ pc = "PLAN"
    /\ store' = [store EXCEPT ![thread] = add_messages(@, create_plan_return)]
    /\ steps' = steps + 1
    /\ pc' = next_step(add_edge("PLAN"), steps + 1)
    /\ UNCHANGED <<thread, run, executed, allTools, execNames, runArg, result>>
    /\ UNCHANGED <<cacheVars, fetchVars, auditVars>>

\* agent node: call_model appends the response, then the conditional edge
call_model(n) ==
    /\ pc = "ACT"
    /\ LET resp == Msg("ai", run, Requests(messages, n), 0, "answer")
           msgs == add_messages(messages, << resp >>)
       IN /\ store' = [store EXCEPT ![thread] = msgs]
          /\ pc' = next_step(IF should_continue(msgs) = "tools" THEN "TOOLS" ELSE "END",
                             steps + 1)
    /\ steps' = steps + 1
    /\ allTools' = (allTools /\ n > 0)
    /\ UNCHANGED <<thread, run, executed, execNames, runArg, result>>
    /\ UNCHANGED <<cacheVars, fetchVars, auditVars>>

\* the tools of backend/tools.py whose body calls get_company_client(ticker)
ClientTools == {"get_company_info", "get_stock_history", "get_financial_statements"}

\* the module state of backend/tools.py the tools work on
CacheNow == [cache |-> cache, handles |-> handles, firstIns |-> firstIns,
             returned |-> returned]

\* the ticker arguments of the calls of a turn that use the cache
client_tickers(calls) ==
    {calls[i].ticker : i \in {j \in DOMAIN calls : calls[j].name \in ClientTools}}

\* the keys of the tickers of a turn that the cache c has not: the calls that
\* pass line 17 for such a key construct a CompanyData
new_keys(c, key_of) ==
    {key_of[t] : t \in DOMAIN key_of} \ {c[i].key : i \in DOMAIN c}

\* the number of calls of the turn whose key is k
calls_of(calls, key_of, k) ==
    Cardinality({i \in DOMAIN calls : /\ calls[i].name \in ClientTools
                                      /\ key_of[calls[i].ticker] = k})

\* the number of calls of the turn whose ticker is t
uses(calls, t) ==
    Cardinality({i \in DOMAIN calls : /\ calls[i].name \in ClientTools
                                      /\ calls[i].ticker = t})

\* line 18 in the threads of the pool: the keys of the objects the calls of
\* the turn construct, in the order of construction.  There is no lock: a new
\* key is constructed once at least, by the first call that misses it, and
\* once more by every other call that passes line 17 before the first
\* assignment, so up to as often as the turn has calls for it
constructions(calls, key_of, K) ==
    IF K = {} THEN { <<>> }
    ELSE LET users == Cardinality({i \in DOMAIN calls : calls[i].name \in ClientTools})
         IN { made \in UNION { [1..n -> K] : n \in Cardinality(K)..users } :
                \A k \in K :
                   LET n == Cardinality({i \in DOMAIN made : made[i] = k})
                   IN n >= 1 /\ n <= calls_of(calls, key_of, k) }

\* line 18, the assignments: for every new key the place in made of the
\* object assigned last, which is the one that stays in the cache
last_stores(made, K) ==
    { last \in [K -> DOMAIN made] : \A k \in K : made[last[k]] = k }

\* line 18, the assignments: the new keys in the order of their first
\* assignment, which is their order in the dict; it is free of the order of
\* the constructions and of the order in which the calls finish
store_orders(K) ==
    IF K = {} THEN { <<>> }
    ELSE { order \in [1..Cardinality(K) -> K] :
             \A i, j \in DOMAIN order : i # j => order[i] # order[j] }

\* line 19 in the threads of the pool: for every ticker with a new key the
\* places in made of the objects its calls return.  A call returns what the
\* cache holds for the key when it reads it, one of the objects constructed
\* for the key; the call that assigns last returns the object that stays
returns(calls, key_of, K, made, last) ==
    LET T == {t \in DOMAIN key_of : key_of[t] \in K}
    IN { got \in [T -> SUBSET (DOMAIN made)] :
           /\ \A t \in T : /\ got[t] # {}
                           /\ \A p \in got[t] : made[p] = key_of[t]
                           /\ Cardinality(got[t]) <= uses(calls, t)
           /\ \A k \in K : \E t \in T : key_of[t] = k /\ last[k] \in got[t] }

\* the state the calls of get_company_client of a turn leave, lines 16-19
pool_after(st, key_of, made, last, order, got) ==
    LET base == Len(st.handles)
        fresh(k) == \A i \in DOMAIN st.firstIns : st.firstIns[i] # k
    IN [cache |-> st.cache \o
                  [i \in DOMAIN order |->
                      [key |-> order[i], obj |-> base + last[order[i]]]],
        handles |-> st.handles \o made,
        firstIns |-> st.firstIns \o SelectSeq(order, fresh),
        returned |->
            [t \in DOMAIN st.returned |->
                st.returned[t] \cup
                (IF t \notin DOMAIN key_of THEN {}
                 ELSE IF t \in DOMAIN got THEN {base + p : p \in got[t]}
                 ELSE {CacheGet(st.cache, key_of[t])})]]

\* the states the calls of a turn can leave in the module state st of
\* backend/tools.py, over the schedules of the threads of the pool
pool_outcomes(st, calls) ==
    UNION { UNION { UNION { UNION {
        { pool_after(st, key_of, made, last, order, got) :
              got \in returns(calls, key_of, K, made, last) } :
          order \in store_orders(K) } :
          last \in last_stores(made, K) } :
          made \in constructions(calls, key_of, K) } :
          <<key_of, K>> \in
              { <<f, new_keys(st.cache, f)>> :
                  f \in {[t \in client_tickers(calls) |-> upper(t)]} } }

\* what the provider gives to the calls the tools of a turn make.  A provider
\* that is up gives every attribute at the first attempt and a frame to the
\* call of company.history (history_call); when it is down the reads of info
\* and financials fail with an error that is no rate limit, and the call of
\* company.history, a method that is always there, gives a frame without rows
Provider(up) ==
    IF up
    THEN [info |-> Val("dict", 2), financials |-> Val("DataFrame", 3),
          history |-> Val("method", 0), history_call |-> Val("DataFrame", 3)]
    ELSE [info |-> Err(<<"404", "Not Found">>), financials |-> Err(<<"404", "Not Found">>),
          history |-> Val("method", 0), history_call |-> EmptyFrame]

\* tools.py:63-87: the operation of CompanyData the tool runs on its client
tool_operation(name) ==
    CASE name = "get_company_info" -> "get_info"
      [] name = "get_stock_history" -> "get_ticker_data"
      [] name = "get_financial_statements" -> "get_financials"

\* the attribute the operation reads with safe_get (stock_fetcher.py:38, 43, 53)
operation_attr(op) ==
    CASE op = "get_info" -> "info"
      [] op = "get_ticker_data" -> "history"
      [] op = "get_financials" -> "financials"

\* one whole call of the operation of the tool name, with the default period
\* of get_stock_history: safe_get reads the attribute (lines 22-34), again
\* after a rate limit only, and the operation finishes with what safe_get
\* returns (lines 36-61)
tool_frame(name, provider) ==
    LET op == tool_operation(name)
        data == provider[operation_attr(op)]
        failed == Raised(data) # <<>>
        todo == IF failed THEN on_error(Raised(data)) ELSE "return"
        ret == CASE todo = "return" -> data
                 [] todo \in {"retry", "break"} -> NoneVal
                 [] OTHER -> Thrown
        asked == op = "get_ticker_data" /\ ret # Thrown /\ history_wanted(ret)
    IN [fcaller |-> op,
        fattr |-> operation_attr(op),
        fattempts |-> IF todo = "retry" THEN DefaultMaxRetries ELSE 1,
        flast |-> data,
        fret |-> ret,
        gret |-> CASE op = "get_info" -> from_dict(ret)
                   [] op = "get_ticker_data" ->
                        IF ret = Thrown \/ (asked /\ provider.history_call.kind = "error")
                        THEN Thrown
                        ELSE IF asked THEN provider.history_call ELSE EmptyFrame
                   [] op = "get_financials" -> ret,
        historyCalls |-> IF asked THEN 1 ELSE 0]

\* tools.py:67, 81, 87: the tool calls to_string on what the operation
\* returned; an exception of the operation or of to_string leaves the tool
tool_raises(name, provider) ==
    name \in ClientTools /\ to_string(tool_frame(name, provider).gret) = Thrown

\* the variables of the fetch after the call of the tool name
tool_fetch(name, provider) ==
    LET frame == tool_frame(name, provider)
    IN /\ fpc' = "done"
       /\ fcaller' = frame.fcaller
       /\ fattr' = frame.fattr
       /\ fmax' = DefaultMaxRetries
       /\ fattempts' = frame.fattempts
       /\ flast' = frame.flast
       /\ fret' = frame.fret
       /\ gpc' = "done"
       /\ gret' = frame.gret
       /\ historyCalls' = frame.historyCalls
       /\ gperiod' = IF frame.fcaller = "get_ticker_data" THEN period_arg(S1mo) ELSE gperiod
       /\ hperiod' = IF frame.historyCalls = 1 THEN period_arg(S1mo) ELSE <<>>

\* the calls of safe_get run in the threads of the pool, each in its own
\* frame: the variables of the fetch are left as the call made for the last
\* request of the turn that has such a tool leaves them
tools_fetch(calls, provider) ==
    LET with == {i \in DOMAIN calls : calls[i].name \in ClientTools}
    IN IF with = {} THEN UNCHANGED fetchVars
       ELSE tool_fetch(calls[CHOOSE i \in with : \A j \in with : j <= i].name, provider)

\* line 105: ToolNode(tools) is built with the default handle_tool_errors of
\* the graph library, and src/ does not say which release of the library is
\* used.  When tools of the turn raise (the set raising), the node answers
\* their calls with a ToolMessage that carries the error, or the exception
\* of the first of them leaves the node and app.invoke
handle_tool_errors(raising) ==
    IF raising = {} THEN {"no error"} ELSE {"message", "raise"}

\* the node gives the calls of a turn to its thread pool in their order and
\* takes the results in that order.  When the exception of a call leaves the
\* node, the calls after it that no thread had started are cancelled: the
\* calls that ran are the first ones of the turn, the raising one included
started(calls, raising, handled) ==
    IF handled = "raise"
    THEN (CHOOSE i \in raising : \A j \in raising : i <= j)..Len(calls)
    ELSE {Len(calls)}

\* tools node: ToolNode runs the tool calls of the last message in a thread
\* pool; the tools fill the cache of backend/tools.py and read the provider.
\* The node appends one ToolMessage per call, in the order of the calls,
\* unless the exception of a tool leaves it: then nothing is appended and
\* the run is over
ToolNode(ups) ==
    /\ pc = "TOOLS"
    /\ \E up \in ups :
         LET calls == messages[Len(messages)].calls
             raising == {i \in DOMAIN calls : tool_raises(calls[i].name, Provider(up))}
         IN \E handled \in handle_tool_errors(raising) :
            \E ran \in started(calls, raising, handled) :
            \E st \in pool_outcomes(CacheNow, SubSeq(calls, 1, ran)) :
              LET outs == [i \in DOMAIN calls |->
                             Msg("tool", run, <<>>, calls[i].id,
                                 IF i \in raising THEN "tool_error" ELSE "tool_result")]
              IN /\ tools_fetch(SubSeq(calls, 1, ran), Provider(up))
                 /\ store' = IF handled = "raise" THEN store
                             ELSE [store EXCEPT ![thread] = add_messages(@, outs)]
                 /\ pc' = IF handled = "raise" THEN "RAISED"
                          ELSE next_step(add_edge("TOOLS"), steps + 1)
                 /\ executed' = executed + ran
                 /\ execNames' =
                       [n \in ToolNames |->
                          execNames[n] + Cardinality({i \in 1..ran : calls[i].name = n})]
                 /\ cache' = st.cache
                 /\ handles' = st.handles
                 /\ firstIns' = st.firstIns
                 /\ returned' = st.returned
    /\ steps' = steps + 1
    /\ UNCHANGED <<thread, run, allTools, runArg, result>>
    /\ UNCHANGED <<cpc, carg, ckey, cobj, auditVars>>

\* tool_call.get("name", "Unknown")
tool_name(call) == IF "name" \in DOMAIN call THEN call.name ELSE "Unknown"

\* tools_used after the loop of lines 156-162 over msgs: a dict from every
\* name found in the tool calls of the messages to the number of its calls
tools_used(msgs) ==
    LET found == CallsIn(msgs)
        seen == {tool_name(msgs[c[1]].calls[c[2]]) : c \in found}
    IN [n \in seen |->
          Cardinality({c \in found : tool_name(msgs[c[1]].calls[c[2]]) = n})]

RECURSIVE response_content_final(_)
\* a plausible slip: the answer is taken from the last message that requests no tool
response_content_final(msgs) ==
    IF msgs = <<>> THEN 0
    ELSE IF HasToolCalls(msgs[Len(msgs)])
         THEN response_content_final(SubSeq(msgs, 1, Len(msgs) - 1))
         ELSE Len(msgs)

\* response_content = result["messages"][-1].content: the content of the last
\* message, given here by the position of the message
response_content(msgs) == Len(msgs)

\* a plausible slip: the tally omits the last message
tally_but_last(msgs) ==
    [kind |-> "result",
     answer |-> response_content(msgs),
     tool_calls |-> TotalCalls(SubSeq(msgs, 1, Len(msgs) - 1)),
     tools_used |-> tools_used(SubSeq(msgs, 1, Len(msgs) - 1))]

\* lines 153-174 of run_financial_agent over result["messages"]: the answer is
\* the content of the last message, given here by its position
tally(msgs) ==
    [kind |-> "result",
     answer |-> response_content(msgs),
     tool_calls |-> TotalCalls(msgs),
     tools_used |-> tools_used(msgs)]

\* whether DUCK_DB_TOKEN is set in the environment
Tokens == BOOLEAN

\* the inputs of the logging: enable_logging, the token, and what the calls
\* to the database do (o1 duckdb.connect, o2 CREATE TABLE, o3 INSERT, o4
\* conn.close); a call that is not made is given as "ok"
LoggingInputs ==
    {in \in [enable_logging : BOOLEAN, token : Tokens, o1 : CallOutcomes,
              o2 : CallOutcomes, o3 : CallOutcomes, o4 : CallOutcomes] :
        LET made1 == in.enable_logging /\ in.token
            made2 == made1 /\ in.o1 = "ok"
            made3 == made2 /\ in.o2 = "ok"
            made4 == made3 /\ in.o3 = "ok"
        IN /\ in.enable_logging \/ in.token
           /\ made1 \/ in.o1 = "ok"
           /\ made2 \/ in.o2 = "ok"
           /\ made3 \/ in.o3 = "ok"
           /\ made4 \/ in.o4 = "ok"}

\* enable_logging has its default, True, and every call to the database succeeds
DefaultInputs ==
    {in \in LoggingInputs : /\ in.enable_logging /\ in.token
                            /\ in.o1 = "ok" /\ in.o2 = "ok" /\ in.o3 = "ok" /\ in.o4 = "ok"}

\* the rest of run_financial_agent once the answer and the metadata are
\* computed: the logging when enable_logging is set (lines 176-183) and the
\* return (line 185)
log_and_return(computed, enable_logging, token, o1, o2, o3, o4) ==
    LET l == IF enable_logging
             THEN try_logging(user_query, content(messages[computed.answer]),
                              computed.tool_calls, token, o1, o2, o3, o4)
             ELSE NoLogger
        after == IF l.raised THEN except_Exception ELSE "return"
    IN /\ aenable' = enable_logging
       /\ lconn' = l.conn
       /\ opened' = l.opened
       /\ closes' = l.closes
       /\ lcalls' = l.calls
       /\ warned' = IF l.raised /\ after = "return" THEN 1 ELSE 0
       /\ arow' = l.row
       /\ sinkRows' = sinkRows + (IF l.row = NoRow THEN 0 ELSE 1)
       /\ aret' = IF after = "return" THEN computed ELSE [kind |-> "raised"]

\* app.invoke has returned: run_financial_agent computes the answer and the
\* metadata (lines 153-174), logs the run and returns; its inputs, drawn from
\* the set inputs, are enable_logging, whether the environment has a token,
\* and what the calls to the database do
run_financial_agent_return(inputs) ==
    /\ pc = "END"
    /\ result = NoResult
    /\ LET computed == tally(messages)
       IN /\ result' = computed
          /\ \E in \in inputs :
                log_and_return(computed, in.enable_logging, in.token,
                               in.o1, in.o2, in.o3, in.o4)
    /\ UNCHANGED <<pc, store, thread, run, executed, allTools, execNames, runArg, steps>>
    /\ UNCHANGED <<cacheVars, fetchVars>>

\* a step of the compiled graph: planner, agent or tools, with the answers of
\* the model stub drawn from batches and the provider up as ups says
GraphStep(batches, ups) ==
    /\ \/ create_plan
       \/ \E n \in batches : call_model(n)
       \/ ToolNode(ups)
    /\ UNCHANGED <<periodVars, searchVars>>

\* the runs of the agent on the default thread, with every answer of the model
\* stub, the provider up or down and the logging on and succeeding
AgentNext ==
    \/ StartRun("default") /\ UNCHANGED <<periodVars, searchVars>>
    \/ GraphStep(Batches, BOOLEAN)
    \/ run_financial_agent_return(DefaultInputs) /\ UNCHANGED <<periodVars, searchVars>>

\* the runs of the agent on the default thread with turns of no call or a
\* tiny batch, the provider up and the logging on and succeeding
StepsNext ==
    \/ StartRun("default") /\ UNCHANGED <<periodVars, searchVars>>
    \/ GraphStep({0, TinyTurn}, {TRUE})
    \/ run_financial_agent_return(DefaultInputs) /\ UNCHANGED <<periodVars, searchVars>>

\* the runs of the agent on either thread, with turns of no call or a small
\* batch, the provider up and the logging on and succeeding
ThreadsNext ==
    \/ \E th \in Threads : StartRun(th) /\ UNCHANGED <<periodVars, searchVars>>
    \/ GraphStep({0, SmallTurn}, {TRUE})
    \/ run_financial_agent_return(DefaultInputs) /\ UNCHANGED <<periodVars, searchVars>>

\* the runs of the agent on the default thread with turns of no call or a
\* small batch, the provider up and every outcome of the logging
AuditNext ==
    \/ StartRun("default") /\ UNCHANGED <<periodVars, searchVars>>
    \/ GraphStep({0, SmallTurn}, {TRUE})
    \/ run_financial_agent_return(LoggingInputs) /\ UNCHANGED <<periodVars, searchVars>>

AgentInit ==
    /\ pc = "idle"
    /\ store = [th \in Threads |-> <<>>]
    /\ thread = "default"
    /\ run = 0
    /\ executed = 0
    /\ allTools = TRUE
    /\ execNames = [n \in ToolNames |-> 0]
    /\ runArg = <<>>
    /\ result = NoResult
    /\ steps = 0

(***************************************************************************)
(* correct_period_parameter of backend/tools.py.                           *)
(***************************************************************************)
\* the characters str.lower leaves as they are
lower_same ==
    { "\\x00", "\\x01", "\\x02", "\\x03", "\\x04", "\\x05", "\\x06", "\\x07", "\\x08",
      "\t", "\n", "\\x0b", "\f", "\r", "\\x0e", "\\x0f", "\\x10", "\\x11", "\\x12",
      "\\x13", "\\x14", "\\x15", "\\x16", "\\x17", "\\x18", "\\x19", "\\x1a", "\\x1b",
      "\\x1c", "\\x1d", "\\x1e", "\\x1f", " ", "!", "\"", "#", "$", "%", "&", "'", "(",
      ")", "*", "+", ",", "-", ".", "/", "0", "1", "2", "3", "4", "5", "6", "7", "8", "9",
      ":", ";", "<", "=", ">", "?", "@", "[", "\\", "]", "^", "_", "\\x60", "a", "b", "c", "d",
      "e", "f", "g", "h", "i", "j", "k", "l", "m", "n", "o", "p", "q", "r", "s", "t", "u",
      "v", "w", "x", "y", "z", "{", "|", "}", "~", "\\x7f", "\\x80", "\\x81", "\\x82",
      "\\x83", "\\x84", "\\x85", "\\x86", "\\x87", "\\x88", "\\x89", "\\x8a", "\\x8b",
      "\\x8c", "\\x8d", "\\x8e", "\\x8f", "\\x90", "\\x91", "\\x92", "\\x93", "\\x94",
      "\\x95", "\\x96", "\\x97", "\\x98", "\\x99", "\\x9a", "\\x9b", "\\x9c", "\\x9d",
      "\\x9e", "\\x9f", "\\xa0", "\\xa1", "\\xa2", "\\xa3", "\\xa4", "\\xa5", "\\xa6",
      "\\xa7", "\\xa8", "\\xa9", "\\xaa", "\\xab", "\\xac", "\\xad", "\\xae", "\\xaf",
      "\\xb0", "\\xb1", "\\xb2", "\\xb3", "\\xb4", "\\xb5", "\\xb6", "\\xb7", "\\xb8",
      "\\xb9", "\\xba", "\\xbb", "\\xbc", "\\xbd", "\\xbe", "\\xbf", "\\xd7", "\\xdf",
      "\\xe0", "\\xe1", "\\xe2", "\\xe3", "\\xe4", "\\xe5", "\\xe6", "\\xe7", "\\xe8",
      "\\xe9", "\\xea", "\\xeb", "\\xec", "\\xed", "\\xee", "\\xef", "\\xf0", "\\xf1",
      "\\xf2", "\\xf3", "\\xf4", "\\xf5", "\\xf6", "\\xf7", "\\xf8", "\\xf9", "\\xfa",
      "\\xfb", "\\xfc", "\\xfd", "\\xfe", "\\xff", "\\u0101", "\\u0103", "\\u0105",
      "\\u0107", "\\u0109", "\\u010b", "\\u010d", "\\u010f", "\\u0111", "\\u0113",
      "\\u0115", "\\u0117", "\\u0119", "\\u011b", "\\u011d", "\\u011f", "\\u0121",
      "\\u0123", "\\u0125", "\\u0127", "\\u0129", "\\u012b", "\\u012d", "\\u012f",
      "\\u0131", "\\u0133", "\\u0135", "\\u0137", "\\u0138", "\\u013a", "\\u013c",
      "\\u013e", "\\u0140", "\\u0142", "\\u0144", "\\u0146", "\\u0148", "\\u0149",
      "\\u014b", "\\u014d", "\\u014f", "\\u0151", "\\u0153", "\\u0155", "\\u0157",
      "\\u0159", "\\u015b", "\\u015d", "\\u015f", "\\u0161", "\\u0163", "\\u0165",
      "\\u0167", "\\u0169", "\\u016b", "\\u016d", "\\u016f", "\\u0171", "\\u0173",
      "\\u0175", "\\u0177", "\\u017a", "\\u017c", "\\u017e", "\\u017f", "\\ufb01" }

\* the characters str.lower changes, each with what it becomes
lower_other ==
    { <<"A", <<"a">>>>, <<"B", <<"b">>>>, <<"C", <<"c">>>>, <<"D", <<"d">>>>,
      <<"E", <<"e">>>>, <<"F", <<"f">>>>, <<"G", <<"g">>>>, <<"H", <<"h">>>>,
      <<"I", <<"i">>>>, <<"J", <<"j">>>>, <<"K", <<"k">>>>, <<"L", <<"l">>>>,
      <<"M", <<"m">>>>, <<"N", <<"n">>>>, <<"O", <<"o">>>>, <<"P", <<"p">>>>,
      <<"Q", <<"q">>>>, <<"R", <<"r">>>>, <<"S", <<"s">>>>, <<"T", <<"t">>>>,
      <<"U", <<"u">>>>, <<"V", <<"v">>>>, <<"W", <<"w">>>>, <<"X", <<"x">>>>,
      <<"Y", <<"y">>>>, <<"Z", <<"z">>>>, <<"\\xc0", <<"\\xe0">>>>,
      <<"\\xc1", <<"\\xe1">>>>, <<"\\xc2", <<"\\xe2">>>>, <<"\\xc3", <<"\\xe3">>>>,
      <<"\\xc4", <<"\\xe4">>>>, <<"\\xc5", <<"\\xe5">>>>, <<"\\xc6", <<"\\xe6">>>>,
      <<"\\xc7", <<"\\xe7">>>>, <<"\\xc8", <<"\\xe8">>>>, <<"\\xc9", <<"\\xe9">>>>,
      <<"\\xca", <<"\\xea">>>>, <<"\\xcb", <<"\\xeb">>>>, <<"\\xcc", <<"\\xec">>>>,
      <<"\\xcd", <<"\\xed">>>>, <<"\\xce", <<"\\xee">>>>, <<"\\xcf", <<"\\xef">>>>,
      <<"\\xd0", <<"\\xf0">>>>, <<"\\xd1", <<"\\xf1">>>>, <<"\\xd2", <<"\\xf2">>>>,
      <<"\\xd3", <<"\\xf3">>>>, <<"\\xd4", <<"\\xf4">>>>, <<"\\xd5", <<"\\xf5">>>>,
      <<"\\xd6", <<"\\xf6">>>>, <<"\\xd8", <<"\\xf8">>>>, <<"\\xd9", <<"\\xf9">>>>,
      <<"\\xda", <<"\\xfa">>>>, <<"\\xdb", <<"\\xfb">>>>, <<"\\xdc", <<"\\xfc">>>>,
      <<"\\xdd", <<"\\xfd">>>>, <<"\\xde", <<"\\xfe">>>>, <<"\\u0100", <<"\\u0101">>>>,
      <<"\\u0102", <<"\\u0103">>>>, <<"\\u0104", <<"\\u0105">>>>,
      <<"\\u0106", <<"\\u0107">>>>, <<"\\u0108", <<"\\u0109">>>>,
      <<"\\u010a", <<"\\u010b">>>>, <<"\\u010c", <<"\\u010d">>>>,
      <<"\\u010e", <<"\\u010f">>>>, <<"\\u0110", <<"\\u0111">>>>,
      <<"\\u0112", <<"\\u0113">>>>, <<"\\u0114", <<"\\u0115">>>>,
      <<"\\u0116", <<"\\u0117">>>>, <<"\\u0118", <<"\\u0119">>>>,
      <<"\\u011a", <<"\\u011b">>>>, <<"\\u011c", <<"\\u011d">>>>,
      <<"\\u011e", <<"\\u011f">>>>, <<"\\u0120", <<"\\u0121">>>>,
      <<"\\u0122", <<"\\u0123">>>>, <<"\\u0124", <<"\\u0125">>>>,
      <<"\\u0126", <<"\\u0127">>>>, <<"\\u0128", <<"\\u0129">>>>,
      <<"\\u012a", <<"\\u012b">>>>, <<"\\u012c", <<"\\u012d">>>>,
      <<"\\u012e", <<"\\u012f">>>>, <<"\\u0130", <<"i", "\\u0307">>>>,
      <<"\\u0132", <<"\\u0133">>>>, <<"\\u0134", <<"\\u0135">>>>,
      <<"\\u0136", <<"\\u0137">>>>, <<"\\u0139", <<"\\u013a">>>>,
      <<"\\u013b", <<"\\u013c">>>>, <<"\\u013d", <<"\\u013e">>>>,
      <<"\\u013f", <<"\\u0140">>>>, <<"\\u0141", <<"\\u0142">>>>,
      <<"\\u0143", <<"\\u0144">>>>, <<"\\u0145", <<"\\u0146">>>>,
      <<"\\u0147", <<"\\u0148">>>>, <<"\\u014a", <<"\\u014b">>>>,
      <<"\\u014c", <<"\\u014d">>>>, <<"\\u014e", <<"\\u014f">>>>,
      <<"\\u0150", <<"\\u0151">>>>, <<"\\u0152", <<"\\u0153">>>>,
      <<"\\u0154", <<"\\u0155">>>>, <<"\\u0156", <<"\\u0157">>>>,
      <<"\\u0158", <<"\\u0159">>>>, <<"\\u015a", <<"\\u015b">>>>,
      <<"\\u015c", <<"\\u015d">>>>, <<"\\u015e", <<"\\u015f">>>>,
      <<"\\u0160", <<"\\u0161">>>>, <<"\\u0162", <<"\\u0163">>>>,
      <<"\\u0164", <<"\\u0165">>>>, <<"\\u0166", <<"\\u0167">>>>,
      <<"\\u0168", <<"\\u0169">>>>, <<"\\u016a", <<"\\u016b">>>>,
      <<"\\u016c", <<"\\u016d">>>>, <<"\\u016e", <<"\\u016f">>>>,
      <<"\\u0170", <<"\\u0171">>>>, <<"\\u0172", <<"\\u0173">>>>,
      <<"\\u0174", <<"\\u0175">>>>, <<"\\u0176", <<"\\u0177">>>>,
      <<"\\u0178", <<"\\xff">>>>, <<"\\u0179", <<"\\u017a">>>>,
      <<"\\u017b", <<"\\u017c">>>>, <<"\\u017d", <<"\\u017e">>>>,
      <<"\\u1e9e", <<"\\xdf">>>>, <<"\\u212a", <<"k">>>>, <<"\\u212b", <<"\\xe5">>>> }

\* str.lower on one character: one character or two ("\\u0130" becomes "i\\u0307")
lower_char(c) ==
    IF c \in lower_same THEN <<c>> ELSE (CHOOSE p \in lower_other : p[1] = c)[2]

\* str.lower: the characters of the string are converted one by one
lower(s) == join([i \in DOMAIN s |-> lower_char(s[i])])

\* the characters str.strip() removes: those for which str.isspace() holds.
\* A character that has no escape in a TLA+ string is named by its Python
\* escape, written with the backslash doubled: "\\x0b" is the character \x0b.
Whitespace == {" ", "\t", "\n", "\\x0b", "\f", "\r", "\\x1c", "\\x1d", "\\x1e", "\\x1f",
               "\\x85", "\\xa0", "\\u1680", "\\u2000", "\\u2001", "\\u2002", "\\u2003",
               "\\u2004", "\\u2005", "\\u2006", "\\u2007", "\\u2008", "\\u2009", "\\u200a",
               "\\u2028", "\\u2029", "\\u202f", "\\u205f", "\\u3000"}

RECURSIVE lstrip(_)
lstrip(s) == IF s # <<>> /\ s[1] \in Whitespace THEN lstrip(Tail(s)) ELSE s

RECURSIVE rstrip(_)
rstrip(s) ==
    IF s # <<>> /\ s[Len(s)] \in Whitespace THEN rstrip(SubSeq(s, 1, Len(s) - 1)) ELSE s

\* str.strip
strip(s) == rstrip(lstrip(s))

\* a plausible slip: an alias is mistyped
period_mapping_typo ==
    (S1w :> S5d) @@ (S2w :> S1mo) @@ (S3w :> S1mo) @@ (S4w :> S1mo) @@
    (Sweek :> S5d) @@ (Smonth :> S1mo) @@ (Syear :> S1y) @@ (S3m :> S3mo) @@
    (S6m :> S6mo) @@ (S2y :> S1y) @@ (S5y :> S5y) @@ (S10y :> S10y)

\* lines 98-111: the table of the aliases
period_mapping ==
    (S1w :> S5d) @@ (S2w :> S1mo) @@ (S3w :> S1mo) @@ (S4w :> S1mo) @@
    (Sweek :> S5d) @@ (Smonth :> S1mo) @@ (Syear :> S1y) @@ (S3m :> S3mo) @@
    (S6m :> S6mo) @@ (S2y :> S2y) @@ (S5y :> S5y) @@ (S10y :> S10y)

\* a plausible slip: the key is trimmed but not lowercased
period_key_no_lower(invalid_period) == strip(invalid_period)

\* line 114: period_lower = invalid_period.lower().strip()
period_key(invalid_period) == strip(lower(invalid_period))

\* a plausible slip: the answer of the model is returned unchecked
checked_unchecked(corrected) == corrected

\* lines 138-143: the answer if it is a valid period, else '1mo'
checked(corrected) == IF corrected \in valid_periods THEN corrected ELSE S1mo

\* the arguments of the calls and the answers of the model stub
PeriodInputs == { <<"1", "d">>,
                  <<"5", "d">>,
                  <<"1", "m", "o">>,
                  <<"3", "m", "o">>,
                  <<"6", "m", "o">>,
                  <<"1", "y">>,
                  <<"2", "y">>,
                  <<"5", "y">>,
                  <<"1", "0", "y">>,
                  <<"y", "t", "d">>,
                  <<"m", "a", "x">>,
                  <<"1", "w">>,
                  <<"1", "W">>,
                  <<" ", "w", "e", "e", "k", " ">>,
                  <<"M", "o", "n", "t", "h">>,
                  <<"Y", "E", "A", "R">>,
                  <<"3", "m">>,
                  <<"6", "M">>,
                  <<"2", "Y">>,
                  <<"2", "w">>,
                  <<"3", "w">>,
                  <<"4", "w">>,
                  <<"b", "o", "g", "u", "s">>,
                  <<>>,
                  <<" ", "1", "d">>,
                  <<"1", "M", "O">>,
                  <<"1", "0", "Y", "\n">>,
                  <<"w", "e", "e", "k", "\r", "\n">>,
                  <<"\f", "1", "w", "\\x0b">>,
                  <<"Q", "u", "a", "r", "t", "e", "r">>,
                  <<"W", "E", "E", "\\u212a">>,
                  <<"\\u0130">> }

ModelAnswers == { <<"1", "y">>,
                  <<"5", "d">>,
                  <<" ", "3", "m", "o", "\n">>,
                  <<"1", "Y">>,
                  <<"s", "i", "x", " ", "m", "o", "n", "t", "h", "s">>,
                  <<>>,
                  <<"1", "w">>,
                  <<"m", "a", "x">>,
                  <<"1", "d">>,
                  <<"1", "y", "\r", "\n">>,
                  <<"\\xa0", "Y", "T", "D">> }

\* correct_period_parameter(invalid_period); the model, if asked, answers with ans
correct_period_parameter(invalid_period, ans) ==
    /\ pin' = invalid_period
    /\ IF period_key(invalid_period) \in DOMAIN period_mapping
       THEN /\ pout' = period_mapping[period_key(invalid_period)]
            /\ pllm' = 0
            /\ pans' = <<>>
       ELSE /\ pllm' = 1
            /\ pans' = ans
            /\ pout' = checked(strip(ans))
    /\ ppc' = "done"

PeriodNext ==
    /\ \E inp \in PeriodInputs, ans \in ModelAnswers : correct_period_parameter(inp, ans)
    /\ UNCHANGED <<agentVars, cacheVars, fetchVars, searchVars, auditVars>>

PeriodInit ==
    /\ ppc = "idle"
    /\ pin = <<>>
    /\ pans = <<>>
    /\ pllm = 0
    /\ pout = <<>>

(***************************************************************************)
(* The symbol search: the static method CompanyData.search_stock_symbol    *)
(* of backend/stock_fetcher.py and the search_stock_symbol tool of         *)
(* backend/tools.py.  Python values carry their type: t is "bool", "str",  *)
(* "list" or "dict" and v the value; a string is a sequence of characters. *)
(***************************************************************************)
\* longest list of quotes the endpoint answers with
MaxQuotes == 6

PyBool(b) == [t |-> "bool", v |-> b]
PyStr(x) == [t |-> "str", v |-> x]
PyList(x) == [t |-> "list", v |-> x]
PyDict(x) == [t |-> "dict", v |-> x]

\* an exception raised inside the tool
PyRaised == [t |-> "raised", v |-> "TypeError"]

SGOOGL == <<"G", "O", "O", "G", "L">>
SF == <<"F">>
SUNKNOWN == <<"U", "N", "K", "N", "O", "W", "N">>

\* a quote of the endpoint: with a symbol, or without the key 'symbol'
Quotes == { [symbol |-> SGOOGL], [symbol |-> SF], [name |-> "no symbol"] }

RECURSIVE QuoteLists(_)
QuoteLists(n) ==
    IF n = 0 THEN { <<>> }
    ELSE LET shorter == QuoteLists(n - 1)
         IN shorter \cup { Append(q, x) : q \in {y \in shorter : Len(y) = n - 1}, x \in Quotes }

\* what the endpoint does: requests.get raises, response.json() raises,
\* a JSON object without the key 'quotes', or one with a list of quotes
Responses ==
    { [kind |-> "get_raises"], [kind |-> "json_raises"], [kind |-> "no_quotes_key"] }
    \cup { [kind |-> "quotes", quotes |-> q] : q \in QuoteLists(MaxQuotes) }

\* quote.get('symbol', '')
quote_symbol(quote) == IF "symbol" \in DOMAIN quote THEN quote.symbol ELSE <<>>

\* data['quotes'][:5]
first_five(quotes) == SubSeq(quotes, 1, IF Len(quotes) < 5 THEN Len(quotes) ELSE 5)

not_found == PyDict([found |-> PyBool(FALSE), symbol |-> PyStr(<<>>), matches |-> PyList(<<>>)])

\* CompanyData.search_stock_symbol: the dict it returns for a response
CompanyData_search_stock_symbol(resp) ==
    IF resp.kind \in {"get_raises", "json_raises"} THEN not_found
    ELSE IF resp.kind = "quotes" /\ resp.quotes # <<>>
         THEN LET matches == [i \in DOMAIN first_five(resp.quotes) |->
                                 quote_symbol(first_five(resp.quotes)[i])]
              IN PyDict([found |-> PyBool(TRUE), symbol |-> PyStr(matches[1]),
                         matches |-> PyList(matches)])
         ELSE not_found

\* obj[key] of Python: defined for a dict that has the key, for a string or
\* a list with an integer index; a bool is not subscriptable
getitem(obj, key) ==
    IF obj.t = "dict" /\ key \in DOMAIN obj.v THEN obj.v[key] ELSE PyRaised

\* a plausible slip: the slice keeps the whole string
first_three_whole(x) == x

\* x[:3] of a string
first_three(x) ==
    IF x.t = "str" THEN PyStr(SubSeq(x.v, 1, IF Len(x.v) < 3 THEN Len(x.v) ELSE 3))
    ELSE PyRaised

\* the tool: output['found']['symbol'][:3] inside try, "UNKNOWN" on any exception
search_stock_symbol_tool(output) ==
    LET found == getitem(output, "found")
        symbol == IF found.t = "raised" THEN PyRaised ELSE getitem(found, "symbol")
        value == IF symbol.t = "raised" THEN PyRaised ELSE first_three(symbol)
    IN IF value.t = "raised" THEN PyStr(SUNKNOWN) ELSE value

search_stock_symbol(resp) ==
    /\ spc = "idle"
    /\ sresp' = resp
    /\ sout' = CompanyData_search_stock_symbol(resp)
    /\ stool' = search_stock_symbol_tool(CompanyData_search_stock_symbol(resp))
    /\ spc' = "done"

SearchNext ==
    /\ \E resp \in Responses : search_stock_symbol(resp)
    /\ UNCHANGED <<agentVars, cacheVars, fetchVars, periodVars, auditVars>>

SearchInit ==
    /\ spc = "idle"
    /\ sresp = [kind |-> "none"]
    /\ sout = not_found
    /\ stool = PyStr(<<>>)

Init == AgentInit /\ CacheInit /\ FetchInit /\ PeriodInit /\ SearchInit /\ AuditInit

SearchSpec == Init /\ [][SearchNext]_vars

PeriodSpec == Init /\ [][PeriodNext]_vars

FetchSpec == Init /\ [][FetchNext]_vars

Next == AgentNext

\* one caller at a time: every call returns before the next one starts
CacheNext ==
    /\ get_company_client(1, Idents)
    /\ UNCHANGED <<agentVars, fetchVars, periodVars, searchVars, auditVars>>

\* the callers run in threads (the tools node runs the calls of a turn in a
\* thread pool) and interleave between the lines of get_company_client
CacheConcNext ==
    /\ \E t \in Callers : get_company_client(t, ConcIdents)
    /\ UNCHANGED <<agentVars, fetchVars, periodVars, searchVars, auditVars>>

CacheSpec == Init /\ [][CacheNext]_vars

CacheConcSpec == Init /\ [][CacheConcNext]_vars

Spec == Init /\ [][Next]_vars

ThreadsSpec == Init /\ [][ThreadsNext]_vars

AuditSpec == Init /\ [][AuditNext]_vars

StepsSpec == Init /\ [][StepsNext]_vars

\* the graph runs a started run to its end: its nodes are not abandoned
StepsLiveSpec == StepsSpec /\ WF_vars(GraphStep({0, TinyTurn}, {TRUE}))

(***************************************************************************)
(* C1: a run in which every agent step requests a tool reaches END, and    *)
(* the tool invocations executed in it are at most the call budget.        *)
(***************************************************************************)
C1_TerminatesWithinBudget ==
    /\ [](allTools => executed <= CallBudget)
    /\ ((pc \in {"PLAN", "ACT", "TOOLS"} /\ allTools) ~> (pc = "END"))

(***************************************************************************)
(* C2: should_continue answers "tools" exactly when the last message       *)
(* carries tool calls and the calls of all messages are fewer than 50.     *)
(***************************************************************************)
C2_ShouldContinue ==
    (pc \in {"TOOLS", "END"}) =>
        LET last == messages[Len(messages)]
            pending == last.role = "ai" /\ Len(last.calls) >= 1
            below == TotalCalls(messages) < 50
        IN /\ (pc = "TOOLS") <=> (pending /\ below)
           /\ (pc = "END") <=> (~pending \/ ~below)

C2_Witness ==
    /\ pc = "END"
    /\ HasToolCalls(messages[Len(messages)])
    /\ TotalCalls(messages) = CallBudget

(***************************************************************************)
(* C3: callers that call get_company_client with the same identifier at    *)
(* the same time get one and the same object, and at most one object is    *)
(* constructed for the identifier.                                         *)
(***************************************************************************)
Constructed(k) == {i \in DOMAIN handles : handles[i] = k}

C3_SingleFlight ==
    \A id \in Idents :
        /\ Cardinality(Constructed(upper(id))) <= 1
        /\ Cardinality(returned[id]) <= 1

(***************************************************************************)
(* C4: identifiers that are equal after uppercasing get the same object,   *)
(* which is constructed at most once and stored under the uppercased key.  *)
(***************************************************************************)
C4_SameHandle ==
    /\ \A a, b \in Idents :
          upper(a) = upper(b) => Cardinality(returned[a] \cup returned[b]) <= 1
    /\ \A a \in Idents :
          Cardinality({i \in DOMAIN handles : upper(handles[i]) = upper(a)}) <= 1
    /\ \A i \in DOMAIN cache :
          \A j \in DOMAIN cache[i].key : upper_char(cache[i].key[j]) = <<cache[i].key[j]>>

C4_Witness ==
    \E a, b \in Idents :
        /\ a # b
        /\ upper(a) = upper(b)
        /\ a # upper(a)
        /\ returned[a] # {}
        /\ returned[a] = returned[b]

(***************************************************************************)
(* C5: the cache never evicts: an entry once stored stays at its place     *)
(* with its object, and get_cached_companies lists the keys in the order   *)
(* of their first insertion, each once.                                    *)
(***************************************************************************)
C5_NoEviction ==
    /\ [][\A i \in DOMAIN cache : i \in DOMAIN cache' /\ cache'[i] = cache[i]]_vars
    /\ [](get_cached_companies = firstIns)
    /\ [](\A i, j \in DOMAIN cache : cache[i].key = cache[j].key => i = j)

C5_Witness ==
    /\ Len(cache) >= 3
    /\ \E id \in Idents : returned[id] # {} /\ id # upper(id)
    /\ get_cached_companies = firstIns

(***************************************************************************)
(* C6: safe_get never raises; when the last read of the attribute failed   *)
(* with an error that is no rate limit, or gave None, it returns None.     *)
(***************************************************************************)
IsRateLimit(o) ==
    o.kind = "error" /\ (Contains(o.msg, "429") \/ Contains(o.msg, "Too Many Requests"))

C6_NeverRaises ==
    /\ fret # Thrown
    /\ (fpc = "done" /\ fattempts >= 1
          /\ ((flast.kind = "error" /\ ~IsRateLimit(flast)) \/ flast = NoneVal))
       => fret = NoneVal

C6_Witness ==
    /\ fpc = "done"
    /\ fattempts >= 1
    /\ flast.kind = "error"
    /\ ~IsRateLimit(flast)
    /\ fret = NoneVal

(***************************************************************************)
(* C7: a further read of the attribute is made only after a rate limit     *)
(* error, never after another failure; a call makes at most max_retries    *)
(* reads, and returns None when they all failed.                           *)
(***************************************************************************)
C7_AsymmetricBoundedRetry ==
    /\ [][(fattempts' = fattempts + 1 /\ fattempts >= 1) => IsRateLimit(flast)]_vars
    /\ [](fattempts <= fmax)
    /\ []((fpc = "done" /\ fattempts = fmax /\ IsRateLimit(flast)) => fret = NoneVal)

C7_Witness ==
    /\ fpc = "done"
    /\ fmax = DefaultMaxRetries
    /\ fattempts = fmax
    /\ IsRateLimit(flast)
    /\ fret = NoneVal

(***************************************************************************)
(* C8: a read of the attribute never follows a read that hit the rate      *)
(* limit without a wait between the two.                                   *)
(***************************************************************************)
C8_BackoffBetweenAttempts ==
    [][(fpc = "loop" /\ fattempts >= 1 /\ IsRateLimit(flast)) => fattempts' = fattempts]_vars

(***************************************************************************)
(* C9: None and the empty dict are failures of the read: safe_get does     *)
(* not return them.  Empty values of other types are returned.             *)
(***************************************************************************)
C9_EmptyIsFailure ==
    (fpc = "done" /\ fattempts >= 1 /\ flast.kind = "value"
       /\ (flast.type = "NoneType" \/ (flast.type = "dict" /\ flast.size = 0)))
    => fret = NoneVal

C9_Witness ==
    /\ fpc = "done"
    /\ flast = Val("dict", 0)
    /\ fret = NoneVal

\* C9 as claimed: no empty value of any type is returned
C9_Original ==
    (fpc = "done" /\ fattempts >= 1 /\ flast.kind = "value"
       /\ flast.type \in {"NoneType", "dict", "list", "DataFrame"} /\ flast.size = 0)
    => fret = NoneVal

(***************************************************************************)
(* C10: when safe_get gave no result, get_ticker_data returns an empty     *)
(* DataFrame and has not called the history endpoint.                      *)
(***************************************************************************)
C10_EmptyFrameOnFailure ==
    (gpc = "done" /\ fcaller = "get_ticker_data" /\ fret = NoneVal)
    => (gret = EmptyFrame /\ historyCalls = 0)

C10_Witness ==
    /\ gpc = "done"
    /\ fcaller = "get_ticker_data"
    /\ fret = NoneVal
    /\ fattempts >= 1
    /\ gret = EmptyFrame

(***************************************************************************)
(* C17: the metadata of a completed run give the number of tool            *)
(* invocations executed in the run, in total and for every tool name.      *)
(***************************************************************************)
UsedCount(n) == IF n \in DOMAIN result.tools_used THEN result.tools_used[n] ELSE 0

C17_MetadataCountsExecuted ==
    result # NoResult =>
        /\ result.tool_calls = executed
        /\ \A n \in ToolNames : UsedCount(n) = execNames[n]

(***************************************************************************)
(* C18: whatever the thread id, the messages a run works on were all       *)
(* created in that run and start with its system prompt and its user       *)
(* query, and its tally counts the tool calls of that run only.            *)
(***************************************************************************)
OfRun(m) == m.run = run

C18_Original ==
    run >= 1 =>
        /\ \A i \in DOMAIN messages : messages[i].run = run
        /\ messages[1].text = "system_prompt"
        /\ messages[2].text = "user_query"
        /\ result # NoResult => result.tool_calls = TotalCalls(SelectSeq(messages, OfRun))

(***************************************************************************)
(* C19: a run goes PLAN, ACT, then TOOLS or END; TOOLS goes back to ACT;   *)
(* the plan is made once and first, no tool runs before the first agent    *)
(* step, END is entered from ACT only and no graph step follows END.       *)
(***************************************************************************)
PlansOfRun == {i \in DOMAIN messages : messages[i].run = run /\ messages[i].text = "plan"}

C19_StateSequence ==
    /\ [][IF pc' # pc
          THEN \/ pc \in {"idle", "END", "RAISED"} /\ pc' = "PLAN" /\ run' = run + 1
               \/ pc = "PLAN" /\ pc' = "ACT" /\ run' = run
               \/ pc = "ACT" /\ pc' \in {"TOOLS", "END"} /\ run' = run
               \/ pc = "TOOLS" /\ pc' = "ACT" /\ run' = run
          ELSE store' = store /\ executed' = executed /\ run' = run]_vars
    /\ [](pc = "PLAN" => executed = 0 /\ PlansOfRun = {})
    /\ [](pc \in {"ACT", "TOOLS", "END"} =>
             LET plans == PlansOfRun
                 acts == {i \in DOMAIN messages : /\ messages[i].run = run
                                                   /\ messages[i].role \in {"ai", "tool"}}
             IN /\ Cardinality(plans) = 1
                /\ \A j \in plans : \A i \in acts : j < i)

(***************************************************************************)
(* C20: every step leaves the messages of every thread as a prefix of the  *)
(* messages after it; the planner adds exactly one system message, the     *)
(* plan, and the planning prompt is never stored.                          *)
(***************************************************************************)
C20_AppendOnly ==
    /\ [][\A th \in Threads :
            /\ Len(store[th]) <= Len(store'[th])
            /\ SubSeq(store'[th], 1, Len(store[th])) = store[th]]_vars
    /\ [][(pc = "PLAN" /\ pc' # "PLAN") =>
            /\ Len(store'[thread]) = Len(store[thread]) + 1
            /\ store'[thread][Len(store'[thread])].role = "system"
            /\ store'[thread][Len(store'[thread])].text = "plan"]_vars
    /\ [](\A th \in Threads : \A i \in DOMAIN store[th] :
             store[th][i].text # "planning_prompt")

C20_Witness ==
    /\ pc = "ACT"
    /\ run = 2
    /\ Len(messages) > 6
    /\ messages[Len(messages)].role = "tool"

(***************************************************************************)
(* C11: the history endpoint of the provider is only called with a period  *)
(* of the Valid Period Set.                                                *)
(***************************************************************************)
C11_HistoryPeriodValid ==
    historyCalls > 0 => hperiod \in valid_periods

(***************************************************************************)
(* C12: no failure of the provider leaves get_info, get_financials or      *)
(* get_ticker_data as an exception, the failure of the history call of     *)
(* get_ticker_data included.                                               *)
(***************************************************************************)
C12_NoProviderExceptionEscapes ==
    (gpc = "done" /\ fcaller \in {"get_info", "get_financials", "get_ticker_data"})
    => gret # Thrown

(***************************************************************************)
(* C13: when safe_get returned None, get_info and get_financials and the   *)
(* tools built on them end without an exception and give a string or an    *)
(* empty result.                                                           *)
(***************************************************************************)
C13_AbsenceIsNormal ==
    (gpc = "done" /\ fcaller \in {"get_info", "get_financials"} /\ fret = NoneVal)
    => /\ gret # Thrown
       /\ tool_result # Thrown

(***************************************************************************)
(* C14: whatever the argument and whatever the model answers,              *)
(* correct_period_parameter returns a period of the Valid Period Set.      *)
(***************************************************************************)
C14_Total ==
    ppc = "done" => pout \in valid_periods

C14_Witness ==
    /\ ppc = "done"
    /\ pllm = 1
    /\ strip(pans) \notin valid_periods
    /\ pout = S1mo

(***************************************************************************)
(* C15: for 2y, 5y and 10y the argument is returned unchanged and the      *)
(* model is not asked; for the other valid periods the model is asked once *)
(* and its trimmed answer is returned if it is a valid period, 1mo         *)
(* otherwise.  So a valid period is returned unchanged exactly when it is  *)
(* 2y, 5y or 10y, or the trimmed answer of the model is that period, or it *)
(* is 1mo and the trimmed answer of the model is no valid period.          *)
(***************************************************************************)
C15_ValidInput ==
    (ppc = "done" /\ pin \in valid_periods) =>
        /\ pin \in {S2y, S5y, S10y} => (pout = pin /\ pllm = 0)
        /\ pin \notin {S2y, S5y, S10y} =>
              /\ pllm = 1
              /\ pout = IF strip(pans) \in valid_periods THEN strip(pans) ELSE S1mo
        /\ (pout = pin) <=>
              \/ pin \in {S2y, S5y, S10y}
              \/ (pllm = 1 /\ strip(pans) = pin)
              \/ (pllm = 1 /\ pin = S1mo /\ strip(pans) \notin valid_periods)

C15_Witness ==
    /\ ppc = "done"
    /\ pin = S1d
    /\ pout = S1y

\* C15 as claimed: a valid period is returned unchanged
C15_Original ==
    (ppc = "done" /\ pin \in valid_periods) => pout = pin

(***************************************************************************)
(* C16: an argument that is, lowercased and trimmed, an alias of the       *)
(* table gets the value of the table without the model being asked; for    *)
(* any other argument the model is asked once and its trimmed answer is    *)
(* returned if it is a valid period, 1mo otherwise.                        *)
(***************************************************************************)
C16_ThreeTiers ==
    ppc = "done" =>
        LET key == strip(lower(pin))
        IN /\ IF key \in DOMAIN period_mapping
              THEN pout = period_mapping[key] /\ pllm = 0
              ELSE /\ pllm = 1
                   /\ pout = IF strip(pans) \in valid_periods THEN strip(pans) ELSE S1mo
           /\ key = S1w => pout = S5d
           /\ key = Smonth => pout = S1mo

C16_Witness ==
    /\ ppc = "done"
    /\ pin = <<"M", "o", "n", "t", "h">>
    /\ pout = S1mo
    /\ pllm = 0

(***************************************************************************)
(* C23: at END the last message is an assistant message of the run, also   *)
(* when the budget forced END, and the answer run_financial_agent computes *)
(* is the content of that message.                                         *)
(***************************************************************************)
C23_AnswerIsLastAssistant ==
    /\ pc = "END" =>
          /\ messages[Len(messages)].role = "ai"
          /\ messages[Len(messages)].run = run
    /\ result # NoResult =>
          /\ pc = "END"
          /\ result.answer = Len(messages)
          /\ messages[result.answer].role = "ai"

C23_Witness ==
    /\ pc = "END"
    /\ result # NoResult
    /\ HasToolCalls(messages[Len(messages)])
    /\ TotalCalls(messages) >= CallBudget
    /\ result.answer = Len(messages)

(***************************************************************************)
(* C26: at END every tool call an assistant message of the run made while  *)
(* the count of the thread stayed below the budget has exactly one tool    *)
(* message with its id, a result or the error of the tool; the calls of    *)
(* the assistant message at which the budget forced END have none.         *)
(***************************************************************************)
ResultsOf(msgs, id) == {i \in DOMAIN msgs : msgs[i].role = "tool" /\ msgs[i].tcid = id}

Refused(msgs, i) == TotalCalls(SubSeq(msgs, 1, i)) >= CallBudget

C26_ConsumedUnlessRefused ==
    pc = "END" =>
        LET mine == {k \in DOMAIN messages : messages[k].run = run}
            results == {k \in DOMAIN messages : messages[k].role = "tool"}
            answered(R) == {messages[k].tcid : k \in R}
            IdsOf(i) == {messages[i].calls[j].id : j \in DOMAIN messages[i].calls}
            asking == {i \in mine : HasToolCalls(messages[i])}
            refused == {i \in asking : Refused(messages, i)}
        IN /\ answered(results \cap mine) = UNION {IdsOf(i) : i \in asking \ refused}
           /\ answered(results) \cap UNION {IdsOf(i) : i \in refused} = {}
           /\ Cardinality(results) = Cardinality(answered(results))

C26_Witness ==
    /\ pc = "END"
    /\ executed > 0
    /\ HasToolCalls(messages[Len(messages)])
    /\ \E i \in DOMAIN messages : HasToolCalls(messages[i]) /\ ~Refused(messages, i)
    /\ \E i \in DOMAIN messages : messages[i].run = run /\ messages[i].text = "tool_error"

\* C26 as claimed: at END every tool call has exactly one tool message with its id
C26_Original ==
    pc = "END" =>
        \A i \in DOMAIN messages : \A j \in DOMAIN messages[i].calls :
            Cardinality(ResultsOf(messages, messages[i].calls[j].id)) = 1

C25_TopSymbol ==
    spc = "done" =>
        IF sresp.kind = "quotes" /\ sresp.quotes # <<>>
        THEN stool = PyStr(quote_symbol(sresp.quotes[1]))
        ELSE stool = PyStr(SUNKNOWN)

(***************************************************************************)
(* C24: whatever step of the logging fails (the construction of the        *)
(* Logger, connect, log_agent_run, close), run_financial_agent returns     *)
(* the answer and the metadata it computed before the logging; with        *)
(* enable_logging false the Logger is not used at all.                     *)
(***************************************************************************)
C24_AuditIsolated ==
    /\ result = NoResult => aret = NoResult
    /\ result # NoResult =>
          /\ aret = result
          /\ ~aenable => (lcalls = 0 /\ opened = 0 /\ warned = 0 /\ arow = NoRow)

C24_Witness ==
    /\ result # NoResult
    /\ aenable
    /\ warned = 1
    /\ opened = 1
    /\ lcalls = 3
    /\ aret = result
    /\ aret.tool_calls > 0

(***************************************************************************)
(* C28: with logging enabled, every connection run_financial_agent opened  *)
(* is closed when it returns, on every path; a Logger that has a           *)
(* connection opens no other one.                                          *)
(***************************************************************************)
C28_ConnectionsClosed ==
    (result # NoResult /\ aenable) => (closes = opened /\ opened <= 1)

====
